---- MODULE Spec2Model ----
(***************************************************************************)
(* Model of sabafly/gobot-lib, package botlib:                             *)
(*   bot/bot.go             BotManager, Shard, Open, Close, validateShards *)
(*   bot/interaction.go     the application command operations             *)
(*   bot/module_feature.go  FeatureManager, Handler, the enable command    *)
(*                          and RequestFeatureIDRespond                    *)
(***************************************************************************)
EXTENDS Integers, Sequences, FiniteSets, TLC

----------------------------------------------------------------------------
(* Bounds of the model *)

\* largest shard count the platform reports to New()
MaxShards == 3

\* largest number of Features registered in the FeatureManager
MaxFeatures == 2

\* longest "feature" option value of an enable invocation, in characters
MaxValueLen == 3

\* largest number of handlers AddHandler registers on a session
MaxHandlers == 2

\* longest list of commands passed to or returned by the command operations
MaxCommands == 2

\* number of goroutines that call AddFeature concurrently
MaxAdders == 2

----------------------------------------------------------------------------
(* Values *)

\* Go's nil (a nil error, a nil pointer, a nil interface)
Nil == "nil"

\* a Go error value that is nil, as a record like the errors Errorf builds
NoError == [msg |-> Nil]

\* the errors the gateway/REST collaborator may hand back
ErrCauses == {"boom", "timeout"}

VARIABLES
    Api,        \* BotManager.Api: the manager's own Api
    Shards,     \* BotManager.Shards: sequence of units, Shards[i+1] is shard i
    ShardCount, \* BotManager.ShardCount
    mop,        \* the BotManager operation that is running or ran last
    mpc,        \* where that operation stands
    mi,         \* its loop index i
    mret,       \* the error it returned (NoError: nil)
    mcalls,     \* the collaborator calls it made so far, in order
    mpre,       \* Shards as they were when it was called
    mout,       \* the commands it returned (<<>>: nil)
    marg,       \* the list of commands it was called with
    featureMap, \* FeatureManager.featureMap: FeatureType -> sequence of Features
    enabled,    \* the FeatureData stores: store -> the identifiers it holds
    fop,        \* the FeatureManager operation that ran last
    farg,       \* AddFeature: the Feature passed
    fret,       \* AddFeature: the error returned
    fpre,       \* featureMap as it was when the operation was called
    ev,         \* Handler(): the inbound event of the last dispatch
    invoked,    \* Handler(): the indices, in the bucket, of the Features whose
                \*            handler the last dispatch called, in call order
    dpanic,     \* Handler(): the last dispatch ended in a runtime panic
    cmd,        \* ApplicationCommand(): the choices of the descriptor returned by
                \*   the last call since the last AddFeature (<<>>: no call since,
                \*   <<c>>: the choice list c)
    cmdPrev,    \* ApplicationCommand(): the same for the call before that one
    lock,       \* FeatureManager's Mutex: the goroutine that holds it (0: unlocked)
    apc,        \* per goroutine calling AddFeature: where it stands
    af,         \* per goroutine calling AddFeature: its argument f
    aold,       \* per goroutine calling AddFeature: the bucket it read for append
    added,      \* the Features whose AddFeature call returned nil, in return order
    rpc,        \* the goroutine running a dispatch or ApplicationCommand without
                \*   the lock: where it stands
    rseen,      \* the bucket that goroutine read
    fatal,      \* the runtime stopped the process: concurrent map read and map write
    inter,      \* the InteractionCreate the enable handler was called with
    hpc,        \* where the goroutine running the enable handler stands:
                \*   "idle", "blocked" (in <-c), "returned", "panicked"
    hi,         \* its variable i, a pointer (<<>> is nil)
    hk,         \* the index, in the bucket, of the Feature its loop is at
    replies,    \* the InteractionRespond calls made, in order
    writes,     \* the FeatureData.Write calls made, in order
    flows,      \* the RequestFeatureIDRespond calls made, in order
    token,      \* sessionID of the flow that waits ("" when none was minted)
    once,       \* how many one-shot entries of the flow the session holds
    delivered,  \* the interactions delivered to the session while the flow waits
    crashed     \* a handler panicked on the session's delivery path

shardVars == <<Api, Shards, ShardCount, mop, mpc, mi, mret, mcalls, mpre, mout, marg>>

commandVars == <<cmd, cmdPrev>>

raceVars == <<lock, apc, af, aold, added, rpc, rseen, fatal>>

featureVars == <<featureMap, enabled, fop, farg, fret, fpre, ev, invoked, dpanic,
                 cmd, cmdPrev, lock, apc, af, aold, added, rpc, rseen, fatal>>

enableVars == <<inter, hpc, hi, hk, replies, writes, flows, token, once,
                delivered, crashed>>

vars == <<Api, Shards, ShardCount, mop, mpc, mi, mret, mcalls, mpre, mout, marg,
          featureMap, enabled, fop, farg, fret, fpre, ev, invoked, dpanic,
          cmd, cmdPrev, lock, apc, af, aold, added, rpc, rseen, fatal,
          inter, hpc, hi, hk, replies, writes, flows, token, once,
          delivered, crashed>>

----------------------------------------------------------------------------
(* bot.go: the fleet of connection units *)

\* the user a session's State holds once the gateway's Ready event was handled
BotUser == "bot"

\* discordgo.New: a fresh, unopened session (ShardID 0, ShardCount 1); its
\* State holds no user yet (State.User is nil), and no handler is registered
NewSession == [open |-> FALSE, ShardID |-> 0, ShardCount |-> 1, User |-> <<>>,
               handlers |-> 0]

\* NewApi: a fresh Api, not connected; n is the allocation: the address of
\* the Api and of the zero its sequence counter points to
NewApi(n) == [open |-> FALSE, addr |-> n, sequence |-> n]

\* Session.AddHandler: one more handler on the session
SessionAddHandler(s) == [s EXCEPT !.handlers = @ + 1]

\* validateShards(token, count): count units, unit i with ShardID i
RECURSIVE validateShards(_)
validateShards(count) ==
    IF count = 0 THEN <<>>
    ELSE Append(validateShards(count - 1),
                [ShardID |-> count - 1,
                 Session |-> SessionAddHandler(NewSession),
                 Api |-> NewApi(count)])

\* fmt.Errorf(msg + ": %w", err): the message and the wrapped error, nothing else
Errorf(msg, err) == [msg |-> msg, cause |-> err]

\* one collaborator call as the operation saw it
Call(op, shard, err) == [op |-> op, shard |-> shard, err |-> err]

\* Shard.ApiOpen: connects the unit's Api, or fails and leaves it as it was
ApiOpen(sh, err) ==
    IF err = Nil THEN [sh EXCEPT !.Api.open = TRUE] ELSE sh

\* Shard.ApiClose: disconnects the unit's Api; a failed close may or may not
\* have torn the connection down (still: whether it is still connected)
ApiClose(sh, err, still) ==
    IF err = Nil THEN [sh EXCEPT !.Api.open = FALSE]
    ELSE [sh EXCEPT !.Api.open = still /\ sh.Api.open]

\* discordgo Session.Open: opens the gateway session and handles the Ready
\* event, which sets State.User; or fails and leaves the session as it was
SessionOpen(s, err) ==
    IF err = Nil THEN [s EXCEPT !.open = TRUE, !.User = <<BotUser>>] ELSE s

\* discordgo Session.Close: closes the gateway session; a failed close may or
\* may not have torn the socket down
SessionClose(s, err, still) ==
    IF err = Nil THEN [s EXCEPT !.open = FALSE]
    ELSE [s EXCEPT !.open = still /\ s.open]

\* BotManager.Open, entry: shards := b.Shards, the loop starts at i = 0
OpenCall ==
    /\ mpc = "idle"
    /\ mop' = "Open"
    /\ mi' = 0
    /\ mcalls' = <<>>
    /\ mpre' = Shards
    /\ mret' = NoError
    /\ mpc' = IF Len(Shards) = 0 THEN "idle" ELSE "ApiOpen"
    /\ mout' = <<>>
    /\ marg' = <<>>
    /\ UNCHANGED <<Api, Shards, ShardCount>>
    /\ UNCHANGED featureVars
    /\ UNCHANGED enableVars

\* OpenApiOpen with the error of ApiOpen dropped: the loop goes on
OpenApiOpen_ErrorDropped ==
    /\ mpc = "ApiOpen"
    /\ \E err \in ErrCauses \cup {Nil} :
        /\ Shards' = [Shards EXCEPT ![mi + 1] = ApiOpen(@, err)]
        /\ mcalls' = Append(mcalls, Call("ApiOpen", mi, err))
        /\ mret' = mret
        /\ mpc' = "SessionOpen"
    /\ UNCHANGED <<Api, ShardCount, mop, mi, mpre, mout, marg>>
    /\ UNCHANGED featureVars
    /\ UNCHANGED enableVars

\* BotManager.Open, loop body, first half: shards[i].ApiOpen()
OpenApiOpen ==
    /\ mpc = "ApiOpen"
    /\ \E err \in ErrCauses \cup {Nil} :
        /\ Shards' = [Shards EXCEPT ![mi + 1] = ApiOpen(@, err)]
        /\ mcalls' = Append(mcalls, Call("ApiOpen", mi, err))
        /\ IF err # Nil
           THEN /\ mret' = Errorf("failed open api connection", err)
                /\ mpc' = "idle"
           ELSE /\ mret' = mret
                /\ mpc' = "SessionOpen"
    /\ UNCHANGED <<Api, ShardCount, mop, mi, mpre, mout, marg>>
    /\ UNCHANGED featureVars
    /\ UNCHANGED enableVars

\* BotManager.Open, loop body, second half: the session is initialised and
\* s.Open() is called; the loop goes on to i+1 or the operation returns
OpenSessionOpen ==
    /\ mpc = "SessionOpen"
    /\ \E err \in ErrCauses \cup {Nil} :
        LET s == [Shards[mi + 1].Session EXCEPT
                      !.ShardCount = ShardCount,
                      !.ShardID = Shards[mi + 1].ShardID]
        IN  /\ Shards' = [Shards EXCEPT ![mi + 1].Session = SessionOpen(s, err)]
            /\ mcalls' = Append(mcalls, Call("SessionOpen", mi, err))
            /\ IF err # Nil
               THEN /\ mret' = Errorf("failed open session", err)
                    /\ mpc' = "idle"
                    /\ mi' = mi
               ELSE /\ mret' = mret
                    /\ mi' = mi + 1
                    /\ mpc' = IF mi + 1 = Len(Shards) THEN "idle" ELSE "ApiOpen"
    /\ UNCHANGED <<Api, ShardCount, mop, mpre, mout, marg>>
    /\ UNCHANGED featureVars
    /\ UNCHANGED enableVars

\* BotManager.Close, entry
CloseCall ==
    /\ mpc = "idle"
    /\ mop' = "Close"
    /\ mi' = 0
    /\ mcalls' = <<>>
    /\ mpre' = Shards
    /\ mret' = NoError
    /\ mpc' = IF Len(Shards) = 0 THEN "idle" ELSE "SessionClose"
    /\ mout' = <<>>
    /\ marg' = <<>>
    /\ UNCHANGED <<Api, Shards, ShardCount>>
    /\ UNCHANGED featureVars
    /\ UNCHANGED enableVars

\* CloseSessionClose with the error of Session.Close dropped: the loop goes on
CloseSessionClose_ErrorDropped ==
    /\ mpc = "SessionClose"
    /\ \E err \in ErrCauses \cup {Nil}, still \in BOOLEAN :
        /\ (err = Nil => still)
        /\ Shards' = [Shards EXCEPT ![mi + 1].Session = SessionClose(@, err, still)]
        /\ mcalls' = Append(mcalls, Call("SessionClose", mi, err))
        /\ mret' = mret
        /\ mpc' = "ApiClose"
    /\ UNCHANGED <<Api, ShardCount, mop, mi, mpre, mout, marg>>
    /\ UNCHANGED featureVars
    /\ UNCHANGED enableVars

\* BotManager.Close, loop body, first half: shards[i].Session.Close()
CloseSessionClose ==
    /\ mpc = "SessionClose"
    /\ \E err \in ErrCauses \cup {Nil}, still \in BOOLEAN :
        /\ (err = Nil => still)
        /\ Shards' = [Shards EXCEPT ![mi + 1].Session = SessionClose(@, err, still)]
        /\ mcalls' = Append(mcalls, Call("SessionClose", mi, err))
        /\ IF err # Nil
           THEN /\ mret' = Errorf("failed close session", err)
                /\ mpc' = "idle"
           ELSE /\ mret' = mret
                /\ mpc' = "ApiClose"
    /\ UNCHANGED <<Api, ShardCount, mop, mi, mpre, mout, marg>>
    /\ UNCHANGED featureVars
    /\ UNCHANGED enableVars

\* BotManager.Close, loop body, second half: shards[i].ApiClose()
CloseApiClose ==
    /\ mpc = "ApiClose"
    /\ \E err \in ErrCauses \cup {Nil}, still \in BOOLEAN :
        /\ (err = Nil => still)
        /\ Shards' = [Shards EXCEPT ![mi + 1] = ApiClose(@, err, still)]
        /\ mcalls' = Append(mcalls, Call("ApiClose", mi, err))
        /\ IF err # Nil
           THEN /\ mret' = Errorf("failed close api connection", err)
                /\ mpc' = "idle"
                /\ mi' = mi
           ELSE /\ mret' = mret
                /\ mi' = mi + 1
                /\ mpc' = IF mi + 1 = Len(Shards) THEN "idle" ELSE "SessionClose"
    /\ UNCHANGED <<Api, ShardCount, mop, mpre, mout, marg>>
    /\ UNCHANGED featureVars
    /\ UNCHANGED enableVars

\* BotManager.AddHandler(handler): the handler is registered on the session
\* of every unit
AddHandler ==
    /\ mpc = "idle"
    /\ \A j \in 1..Len(Shards) : Shards[j].Session.handlers <= MaxHandlers
    /\ mop' = "AddHandler"
    /\ mpc' = "idle"
    /\ mi' = Len(Shards)
    /\ mcalls' = <<>>
    /\ mpre' = Shards
    /\ mret' = NoError
    /\ mout' = <<>>
    /\ marg' = <<>>
    /\ Shards' = [j \in 1..Len(Shards) |->
                    [Shards[j] EXCEPT !.Session = SessionAddHandler(@)]]
    /\ UNCHANGED <<Api, ShardCount>>
    /\ UNCHANGED featureVars
    /\ UNCHANGED enableVars

----------------------------------------------------------------------------
(* interaction.go: the application commands of the bot *)

\* the names of the application commands of the bot
Commands == {"ping", "help"}

\* the sequences of at most n elements of set S
SeqsUpTo(S, n) == UNION {[1..m -> S] : m \in 0..n}

\* errors.New("error: no session")
ErrNoSession == [msg |-> "error: no session"]

\* errors.New("error: nil command")
ErrNilCommand == [msg |-> "error: nil command"]

\* fmt.Errorf("error: failed to create %s command: %w", v.Name, err)
ErrorfCreate(name, err) ==
    [msg |-> "error: failed to create %s command", name |-> name, cause |-> err]

\* an error of the REST collaborator handed back as it is
RestError(err) == [msg |-> err]

\* one REST call as the operation saw it: what was called, on which unit's
\* session, for which command or guild, the error it returned and the
\* commands it returned
RestCall(op, shard, arg, err, got) ==
    [op |-> op, shard |-> shard, arg |-> arg, err |-> err, got |-> got]

\* the *discordgo.ApplicationCommand the platform hands back for a created
\* command
Created(name) == [Name |-> name, ID |-> "id"]

\* what one create call returns: a command, an error, or neither ("nil")
CreateResults == {"ok", "nil"} \cup ErrCauses

\* what one delete call returns
DeleteResults == {"ok"} \cup ErrCauses

\* b.Shards[0].Session.State.User is nil: reading its ID panics
NoStateUser == Shards[1].Session.User = <<>>

\* the state of a command operation: the calls made, the commands gathered,
\* the error returned, and whether it panicked
OpState(calls, out, err, panicked) ==
    [calls |-> calls, out |-> out, err |-> err, panicked |-> panicked]

\* for _, v := range tree { ... } of ApplicationCommandCreate, from index k on
RECURSIVE CreateLoop(_, _, _, _)
CreateLoop(tree, results, k, st) ==
    IF k > Len(tree) THEN st
    ELSE IF NoStateUser THEN [st EXCEPT !.panicked = TRUE]
    ELSE LET err == IF results[k] \in ErrCauses THEN results[k] ELSE Nil
             st1 == [st EXCEPT !.calls =
                        Append(@, RestCall("ApplicationCommandCreate", 0, tree[k], err,
                                           IF results[k] = "ok"
                                           THEN <<Created(tree[k])>> ELSE <<>>))]
         IN  IF err # Nil
             THEN [st1 EXCEPT !.out = <<>>, !.err = ErrorfCreate(tree[k], err)]
             ELSE CreateLoop(tree, results, k + 1,
                     IF results[k] = "ok"
                     THEN [st1 EXCEPT !.out = Append(@, Created(tree[k]))]
                     ELSE st1)

\* for _, ac := range cmd { ... } of ApplicationCommandDelete and of
\* LocalApplicationCommandDelete (guild: "" or env.AdminID), from index k on
RECURSIVE DeleteLoop(_, _, _, _, _)
DeleteLoop(cmds, results, guild, k, st) ==
    IF k > Len(cmds) THEN st
    ELSE IF cmds[k] = <<>> THEN [st EXCEPT !.err = ErrNilCommand]
    ELSE IF NoStateUser THEN [st EXCEPT !.panicked = TRUE]
    ELSE LET err == IF results[k] \in ErrCauses THEN results[k] ELSE Nil
             st1 == [st EXCEPT !.calls =
                        Append(@, RestCall("ApplicationCommandDelete", 0,
                                           <<guild, cmds[k][1]>>, err, <<>>))]
         IN  IF err # Nil
             THEN [st1 EXCEPT !.err = RestError(err)]
             ELSE DeleteLoop(cmds, results, guild, k + 1, st1)

\* a command operation ends in state st: it has returned ("done") or panicked
SetOpState(op, arg, st) ==
    /\ mpc' = IF st.panicked THEN "panicked" ELSE "done"
    /\ mop' = op
    /\ mi' = 0
    /\ mcalls' = st.calls
    /\ mret' = st.err
    /\ mout' = st.out
    /\ marg' = arg
    /\ mpre' = Shards
    /\ UNCHANGED <<Api, Shards, ShardCount>>
    /\ UNCHANGED featureVars
    /\ UNCHANGED enableVars

\* BotManager.ApplicationCommandCreate(tree); results[k] is what the create
\* call for tree[k] returns
ApplicationCommandCreate(tree, results) ==
    /\ mpc = "idle"
    /\ SetOpState("ApplicationCommandCreate", tree,
            IF Len(Shards) = 0
            THEN OpState(<<>>, <<>>, ErrNoSession, FALSE)
            ELSE CreateLoop(tree, results, 1, OpState(<<>>, <<>>, NoError, FALSE)))

\* BotManager.ApplicationCommandDelete(cmd); an element of cmd is a pointer
ApplicationCommandDelete(cmds, results) ==
    /\ mpc = "idle"
    /\ SetOpState("ApplicationCommandDelete", cmds,
            IF Len(Shards) = 0
            THEN OpState(<<>>, <<>>, ErrNoSession, FALSE)
            ELSE DeleteLoop(cmds, results, "", 1, OpState(<<>>, <<>>, NoError, FALSE)))

\* the list call of ApplicationCommands and LocalApplicationCommandDelete
ListCall(guild, listed, listErr) ==
    IF NoStateUser THEN OpState(<<>>, <<>>, NoError, TRUE)
    ELSE IF listErr # Nil
         THEN OpState(<<RestCall("ApplicationCommands", 0, guild, listErr, <<>>)>>, <<>>,
                      RestError(listErr), FALSE)
         ELSE OpState(<<RestCall("ApplicationCommands", 0, guild, Nil, listed)>>, listed,
                      NoError, FALSE)

\* BotManager.ApplicationCommands(); listed is what the platform lists
ApplicationCommands(listed, listErr) ==
    /\ mpc = "idle"
    /\ SetOpState("ApplicationCommands", <<>>,
            IF Len(Shards) = 0
            THEN OpState(<<>>, <<>>, ErrNoSession, FALSE)
            ELSE ListCall("", listed, listErr))

\* BotManager.LocalApplicationCommandDelete(): lists the commands of the
\* admin guild and deletes each; it returns an error only
LocalApplicationCommandDelete(listed, listErr, results) ==
    /\ mpc = "idle"
    /\ SetOpState("LocalApplicationCommandDelete", <<>>,
            IF Len(Shards) = 0
            THEN OpState(<<>>, <<>>, ErrNoSession, FALSE)
            ELSE LET l == ListCall("AdminID", listed, listErr)
                 IN  IF l.panicked \/ l.err # NoError THEN l
                     ELSE DeleteLoop(listed, results, "AdminID", 1, [l EXCEPT !.out = <<>>]))

----------------------------------------------------------------------------
(* bot.go: construction *)

\* New(token) when the platform reports count shards: validateShards builds
\* the manager with its own Api and the units; it leaves ShardCount at zero
InitFleet(count) ==
    /\ Api = NewApi(0)
    /\ ShardCount = 0
    /\ Shards = validateShards(count)
    /\ mout = <<>>
    /\ marg = <<>>
    /\ mop = "none"
    /\ mpc = "idle"
    /\ mi = 0
    /\ mret = NoError
    /\ mcalls = <<>>
    /\ mpre = Shards

\* the command operation that ran last has returned to its caller: what the
\* model kept of it is dropped
CommandReturn ==
    /\ mpc = "done"
    /\ mpc' = "idle"
    /\ mop' = "none"
    /\ mi' = 0
    /\ mcalls' = <<>>
    /\ mret' = NoError
    /\ mout' = <<>>
    /\ marg' = <<>>
    /\ mpre' = Shards
    /\ UNCHANGED <<Api, Shards, ShardCount>>
    /\ UNCHANGED featureVars
    /\ UNCHANGED enableVars

\* the lists of commands the callers pass and the platform lists: a list of
\* pointers holds a command (by name) or nil
CommandTrees == SeqsUpTo(Commands, MaxCommands)

CommandPointers == SeqsUpTo({<<>>} \cup {<<c>> : c \in Commands}, MaxCommands)

NextShards ==
    \/ OpenCall
    \/ OpenApiOpen
    \/ OpenSessionOpen
    \/ CloseCall
    \/ CloseSessionClose
    \/ CloseApiClose
    \/ AddHandler

\* the fleet and the command operations
NextCommands ==
    \/ OpenCall
    \/ OpenApiOpen
    \/ OpenSessionOpen
    \/ CloseCall
    \/ CloseSessionClose
    \/ CloseApiClose
    \/ CommandReturn
    \/ \E tree \in CommandTrees :
        \E results \in [1..Len(tree) -> CreateResults] :
            ApplicationCommandCreate(tree, results)
    \/ \E cmds \in CommandPointers :
        \E results \in [1..Len(cmds) -> DeleteResults] :
            ApplicationCommandDelete(cmds, results)
    \/ \E listed \in CommandPointers, listErr \in ErrCauses \cup {Nil} :
            ApplicationCommands(listed, listErr)
    \/ \E listed \in CommandPointers, listErr \in ErrCauses \cup {Nil} :
        \E results \in [1..Len(listed) -> DeleteResults] :
            LocalApplicationCommandDelete(listed, listErr, results)


----------------------------------------------------------------------------
(* module_feature.go: the Feature registry *)

\* FeatureType values; a string is a sequence of characters, and the model
\* writes "M" for "MESSAGE_CREATE", "T" for "TYPING_START", "C" for "CUSTOM"
FeatureMessageCreate == <<"M">>
FeatureTypingStart == <<"T">>
FeatureCustom == <<"C">>
FeatureUnknown == <<>>

\* FeatureIDType values
FeatureChannelID == "CHANNEL_ID"
FeatureUserID == "USER_ID"
FeatureGuildID == "GUILD_ID"
FeatureRoleID == "ROLE_ID"

\* the two function shapes Handler() asserts Feature.Handler against
FnMessageCreate == "func(*Session, *MessageCreate)"
FnTypingStart == "func(*Session, *TypingStart)"

\* ErrNoFeatureData
ErrNoFeatureData == [msg |-> "no feature data"]

\* the FeatureData stores of the registering code, and the channel, guild,
\* user and role identifiers of the platform
DataStores == {"d1", "d2"}
EntityIds == {"x", "y"}

\* the goroutines that call AddFeature concurrently
Adders == 1..MaxAdders

\* the zero Feature
NoFeature == [Name |-> "", ID |-> <<>>, IDType |-> "", Type |-> <<>>,
              Data |-> Nil, Handler |-> Nil]

\* FeatureData.IsEnabled(id) on store d
IsEnabled(d, id) == id \in enabled[d]

\* NewFeatureManager: an empty map, no data written
InitFeatures ==
    /\ featureMap = [t \in {} |-> <<>>]
    /\ enabled = [d \in DataStores |-> {}]
    /\ fop = "none"
    /\ farg = NoFeature
    /\ fret = NoError
    /\ fpre = featureMap
    /\ ev = [type |-> "none"]
    /\ invoked = <<>>
    /\ dpanic = FALSE
    /\ cmd = <<>>
    /\ cmdPrev = <<>>
    /\ lock = 0
    /\ apc = [p \in Adders |-> "idle"]
    /\ af = [p \in Adders |-> NoFeature]
    /\ aold = [p \in Adders |-> <<>>]
    /\ added = <<>>
    /\ rpc = "idle"
    /\ rseen = <<>>
    /\ fatal = FALSE

\* fm.featureMap[t]: a missing key reads as the nil slice
Bucket(fm, t) == IF t \in DOMAIN fm THEN fm[t] ELSE <<>>

\* the number of Features the map holds
RECURSIVE CountFeatures(_, _)
CountFeatures(fm, keys) ==
    IF keys = {} THEN 0
    ELSE LET t == CHOOSE x \in keys : TRUE
         IN  Len(fm[t]) + CountFeatures(fm, keys \ {t})

\* AppendFeature that refuses a Feature already registered under the same
\* Name, ID and Type
AppendFeature_NoDuplicates(fm, f) ==
    IF \E k \in 1..Len(Bucket(fm, f.Type)) :
            /\ Bucket(fm, f.Type)[k].Name = f.Name
            /\ Bucket(fm, f.Type)[k].ID = f.ID
    THEN fm
    ELSE [t \in DOMAIN fm \cup {f.Type} |->
            IF t = f.Type THEN Append(Bucket(fm, t), f) ELSE fm[t]]

\* fm.featureMap[f.Type] = append(fm.featureMap[f.Type], f)
AppendFeature(fm, f) ==
    [t \in DOMAIN fm \cup {f.Type} |->
        IF t = f.Type THEN Append(Bucket(fm, t), f) ELSE fm[t]]

\* FeatureManager.AddFeature(f), under fm.Lock()
AddFeature(f) ==
    /\ fop = "none"
    /\ f.Data # Nil => CountFeatures(featureMap, DOMAIN featureMap) < MaxFeatures
    /\ fop' = "AddFeature"
    /\ farg' = f
    /\ fpre' = featureMap
    /\ IF f.Data = Nil
       THEN /\ fret' = ErrNoFeatureData
            /\ featureMap' = featureMap
       ELSE /\ fret' = NoError
            /\ featureMap' = AppendFeature(featureMap, f)
    /\ cmd' = <<>>
    /\ cmdPrev' = <<>>
    /\ UNCHANGED <<enabled, ev, invoked, dpanic>>
    /\ UNCHANGED raceVars
    /\ UNCHANGED shardVars
    /\ UNCHANGED enableVars

\* the registering code writes an identifier into a FeatureData store
DataWrite(d, id) ==
    /\ fop = "none"
    /\ id \notin enabled[d]
    /\ enabled' = [enabled EXCEPT ![d] = @ \cup {id}]
    /\ UNCHANGED <<featureMap, fop, farg, fret, fpre, ev, invoked, dpanic>>
    /\ UNCHANGED commandVars
    /\ UNCHANGED raceVars
    /\ UNCHANGED shardVars
    /\ UNCHANGED enableVars

\* the operation that ran last has returned to its caller: what the model
\* kept of it is dropped
FeatureReturn ==
    /\ fop # "none"
    /\ fop' = "none"
    /\ farg' = NoFeature
    /\ fret' = NoError
    /\ fpre' = featureMap
    /\ ev' = [type |-> "none"]
    /\ invoked' = <<>>
    /\ dpanic' = FALSE
    /\ UNCHANGED <<featureMap, enabled>>
    /\ UNCHANGED commandVars
    /\ UNCHANGED raceVars
    /\ UNCHANGED shardVars
    /\ UNCHANGED enableVars

----------------------------------------------------------------------------
(* module_feature.go: the dispatcher returned by FeatureManager.Handler() *)

\* what Session.GuildMember hands back: an error, or a member with its roles
GuildMemberResults ==
    { [err |-> "unknown member", Roles |-> <<>>],
      [err |-> Nil, Roles |-> <<"y", "x">>] }

\* the members of the platform an event's handling can ask for: the acting
\* user in the event's guild, and the user whose identifier is the guild's
Platforms(g, u) == [{<<g, u>>, <<g, g>>} -> GuildMemberResults]

\* a pointer is a sequence: <<>> is nil, <<v>> points to v.
\* *discordgo.MessageCreate: Member is nil outside guilds; in a guild message
\* the gateway sends a partial member, which carries no user object
\* (Member.User is nil), and a member built elsewhere may carry the author.
MessageCreateEvents ==
    { [type |-> "MessageCreate", ChannelID |-> c, GuildID |-> g, Author |-> a,
       Member |-> m, Members |-> pf] :
        c \in EntityIds, g \in EntityIds, a \in EntityIds,
        m \in {<<>>, <<[User |-> <<>>]>>} \cup
              {<<[User |-> <<[ID |-> u]>>]>> : u \in EntityIds},
        pf \in UNION {Platforms(g2, a2) : g2 \in EntityIds, a2 \in EntityIds} }

\* *discordgo.TypingStart
TypingStartEvents ==
    { [type |-> "TypingStart", ChannelID |-> c, GuildID |-> g, UserID |-> u,
       Members |-> pf] :
        c \in EntityIds, g \in EntityIds, u \in EntityIds,
        pf \in UNION {Platforms(g2, u2) : g2 \in EntityIds, u2 \in EntityIds} }

\* the events a session delivers to the dispatcher: well-formed ones, where a
\* member's user is the message's author and the platform covers the event
InboundEvents ==
    { e \in MessageCreateEvents :
        /\ DOMAIN e.Members = {<<e.GuildID, e.Author>>, <<e.GuildID, e.GuildID>>}
        /\ (e.Member # <<>> /\ e.Member[1].User # <<>>)
                => e.Member[1].User[1].ID = e.Author }
    \cup
    { e \in TypingStartEvents :
        DOMAIN e.Members = {<<e.GuildID, e.UserID>>, <<e.GuildID, e.GuildID>>} }
    \cup
    { [type |-> "InteractionCreate"] }

\* s.GuildMember(guildID, userID)
GuildMember(e, guildID, userID) == e.Members[<<guildID, userID>>]

\* for _, r := range m.Roles { if f.Data.IsEnabled(r) { equal = true; break } }
AnyRoleEnabled(d, roles) == \E k \in 1..Len(roles) : IsEnabled(d, roles[k])

\* the loop body of the MessageCreate case for Feature f: "invoke" when fn(s, v)
\* is reached, "skip" on a continue, "panic" on a nil dereference
MessageCreateBody(f, v) ==
    IF f.Handler # FnMessageCreate THEN "skip"
    ELSE IF f.IDType = FeatureChannelID
         THEN IF IsEnabled(f.Data, v.ChannelID) THEN "invoke" ELSE "skip"
    ELSE IF f.IDType = FeatureGuildID
         THEN IF IsEnabled(f.Data, v.GuildID) THEN "invoke" ELSE "skip"
    ELSE IF f.IDType = FeatureUserID
         THEN IF v.Member # <<>>
              THEN IF v.Member[1].User = <<>>
                   THEN "panic"
                   ELSE IF IsEnabled(f.Data, v.Member[1].User[1].ID)
                        THEN "invoke" ELSE "skip"
              ELSE "skip"
    ELSE IF f.IDType = FeatureRoleID
         THEN LET m == GuildMember(v, v.GuildID, v.GuildID)
              IN  IF m.err # Nil THEN "skip"
                  ELSE IF AnyRoleEnabled(f.Data, m.Roles) THEN "invoke" ELSE "skip"
    ELSE "skip"

\* the loop body of the TypingStart case for Feature f
TypingStartBody(f, v) ==
    IF f.Handler # FnTypingStart THEN "skip"
    ELSE IF f.IDType = FeatureChannelID
         THEN IF IsEnabled(f.Data, v.ChannelID) THEN "invoke" ELSE "skip"
    ELSE IF f.IDType = FeatureGuildID
         THEN IF IsEnabled(f.Data, v.GuildID) THEN "invoke" ELSE "skip"
    ELSE IF f.IDType = FeatureUserID
         THEN IF IsEnabled(f.Data, v.UserID) THEN "invoke" ELSE "skip"
    ELSE IF f.IDType = FeatureRoleID
         THEN LET m == GuildMember(v, v.GuildID, v.GuildID)
              IN  IF m.err # Nil THEN "skip"
                  ELSE IF AnyRoleEnabled(f.Data, m.Roles) THEN "invoke" ELSE "skip"
    ELSE "skip"

\* for _, f := range bucket { ... } from index k on; calls is the list of the
\* indices whose handler was called so far
RECURSIVE RangeFeatures(_, _, _, _)
RangeFeatures(bucket, k, v, calls) ==
    IF k > Len(bucket) THEN [invoked |-> calls, panicked |-> FALSE]
    ELSE LET r == IF v.type = "MessageCreate"
                  THEN MessageCreateBody(bucket[k], v)
                  ELSE TypingStartBody(bucket[k], v)
         IN  IF r = "panic" THEN [invoked |-> calls, panicked |-> TRUE]
             ELSE IF r = "invoke"
                  THEN RangeFeatures(bucket, k + 1, v, Append(calls, k))
                  ELSE RangeFeatures(bucket, k + 1, v, calls)

\* switch v := a.(type): the bucket an event is dispatched to
EventFeatureType(a) ==
    IF a.type = "MessageCreate" THEN FeatureMessageCreate
    ELSE IF a.type = "TypingStart" THEN FeatureTypingStart
    ELSE FeatureUnknown

\* the func(*discordgo.Session, any) returned by FeatureManager.Handler(),
\* called with event a
Dispatch(a) ==
    /\ fop = "none"
    /\ fop' = "Dispatch"
    /\ ev' = a
    /\ fpre' = featureMap
    /\ LET r == IF a.type \in {"MessageCreate", "TypingStart"}
                THEN RangeFeatures(Bucket(featureMap, EventFeatureType(a)), 1, a, <<>>)
                ELSE [invoked |-> <<>>, panicked |-> FALSE]
       IN  /\ invoked' = r.invoked
           /\ dpanic' = r.panicked
    /\ UNCHANGED <<featureMap, enabled, farg, fret>>
    /\ UNCHANGED commandVars
    /\ UNCHANGED raceVars
    /\ UNCHANGED shardVars
    /\ UNCHANGED enableVars

\* the Features the registering code adds: one per FeatureType, IDType and
\* handler shape (and data store, or none)
DispatchFeatures ==
    { [Name |-> "welcome", ID |-> <<"a">>, IDType |-> it, Type |-> t,
       Data |-> d, Handler |-> h] :
        it \in {FeatureChannelID, FeatureUserID, FeatureGuildID, FeatureRoleID},
        t \in {FeatureMessageCreate, FeatureTypingStart},
        d \in {"d1", Nil},
        h \in {FnMessageCreate, FnTypingStart} }

----------------------------------------------------------------------------
(* module_feature.go: the enable command and the Interactive Enable Flow *)

\* the characters of a "feature" option value ("M": see FeatureMessageCreate)
Chars == {"M", "a", ":"}

\* the strings of at most n characters
Strings(n) == UNION {[1..m -> Chars] : m \in 0..n}

\* strings.Split(s, sep) from position k on, cur being the field read so far
RECURSIVE SplitFrom(_, _, _, _)
SplitFrom(s, k, cur, sep) ==
    IF k > Len(s) THEN <<cur>>
    ELSE IF s[k] = sep THEN <<cur>> \o SplitFrom(s, k + 1, <<>>, sep)
    ELSE SplitFrom(s, k + 1, Append(cur, s[k]), sep)

\* strings.Split(s, sep), sep one character: the fields between the separators
\* (one empty field for the empty string)
Split(s, sep) == SplitFrom(s, 1, <<>>, sep)

\* discordgo.InteractionType
InteractionApplicationCommand == "ApplicationCommand"
InteractionMessageComponent == "MessageComponent"

\* fm.ApplicationCommand().Name: fm.ApplicationCommandSettings.Name
CommandName == "feature-settings"

\* uuid.NewString(): the sessionID of a flow
NewToken == "uuid-1"

\* var c chan struct{}: declared and never made, a nil channel
FlowChannel == "nil"

\* an InteractionCreate
Interaction(id, type, name, value, guild, customID, values) ==
    [ID |-> id, Type |-> type, Name |-> name, Sub |-> "enable",
     Option |-> "feature", Value |-> value, GuildID |-> guild,
     CustomID |-> customID, Values |-> values]

NoInteraction == Interaction("", "none", "", <<>>, "", "", <<>>)

\* the interactions the enable handler is called with: an enable invocation
\* of this registry's command with any "feature" value, in any guild; another
\* command; a component interaction
Invocations ==
    { Interaction("i0", InteractionApplicationCommand, CommandName, v, g, "", <<>>) :
        v \in Strings(MaxValueLen), g \in EntityIds }
    \cup { Interaction("i0", InteractionApplicationCommand, "other", <<>>, "x", "", <<>>),
           Interaction("i0", InteractionMessageComponent, "", <<>>, "x", "other", <<"x">>) }

\* the interactions delivered to the session while a flow waits: the select
\* menu of the flow's prompt, another component, another command
FollowUps ==
    { Interaction("j1", InteractionMessageComponent, "", <<>>, "x", NewToken, <<"x", "y">>),
      Interaction("j2", InteractionMessageComponent, "", <<>>, "x", "other", <<"y">>),
      Interaction("j3", InteractionApplicationCommand, "other", <<>>, "x", "", <<>>) }

\* one s.InteractionRespond call: the interaction answered and what was sent
Reply(i, kind, customID, menuType, err) ==
    [to |-> i.ID, kind |-> kind, customID |-> customID, menuType |-> menuType,
     err |-> err]

\* switch f.IDType: the select menu of the prompt (zero value when none is set)
MenuType(f) ==
    IF f.IDType = FeatureChannelID THEN "ChannelSelectMenu"
    ELSE IF f.IDType = FeatureRoleID THEN "RoleSelectMenu"
    ELSE IF f.IDType = FeatureUserID THEN "UserSelectMenu"
    ELSE ""

\* one RequestFeatureIDRespond call as it ended or as it stands
Flow(state, k, ic, fID, sent, registered) ==
    [state |-> state, k |-> k, ic |-> ic, fID |-> fID, sent |-> sent,
     registered |-> registered]

\* RequestFeatureIDRespond with the guild case falling through to the prompt
RequestFeatureIDRespond_GuildPrompts(i, f, k, respondErr) ==
    IF respondErr # Nil
    THEN Flow("returned", k, <<>>, <<>>,
              <<Reply(i, "prompt", NewToken, MenuType(f), respondErr)>>, FALSE)
    ELSE Flow("blocked", k, <<>>, <<>>,
              <<Reply(i, "prompt", NewToken, MenuType(f), Nil)>>, TRUE)

\* RequestFeatureIDRespond(s, i, f) for the Feature at index k, up to its
\* return or to the receive <-c; respondErr is what InteractionRespond
\* returns for the prompt
RequestFeatureIDRespond(i, f, k, respondErr) ==
    IF f.IDType = FeatureGuildID
    THEN Flow("returned", k, <<i>>, <<i.GuildID>>, <<>>, FALSE)
    ELSE IF respondErr # Nil
         THEN Flow("returned", k, <<>>, <<>>,
                   <<Reply(i, "prompt", NewToken, MenuType(f), respondErr)>>, FALSE)
         ELSE Flow("blocked", k, <<>>, <<>>,
                   <<Reply(i, "prompt", NewToken, MenuType(f), Nil)>>, TRUE)

\* for _, v := range values { f.Data.Write(v) } from index n on
RECURSIVE WriteValues(_, _, _, _, _)
WriteValues(h, d, k, values, n) ==
    IF n > Len(values) THEN h
    ELSE WriteValues([h EXCEPT !.writes = Append(@, [store |-> d, id |-> values[n],
                                                      feature |-> k]),
                               !.enabled[d] = @ \cup {values[n]}],
                     d, k, values, n + 1)

\* the loop of the enable handler over the bucket, from index k on, and what
\* follows a RequestFeatureIDRespond that returned (ic, fID) for index k.
\* h is the state of the handler's goroutine.
RECURSIVE RangeMatching(_, _, _, _, _)
RECURSIVE AfterFlow(_, _, _, _, _, _, _)
RangeMatching(h, bucket, k, featureID, respondErr) ==
    IF k > Len(bucket) THEN [h EXCEPT !.pc = "returned", !.k = k]
    ELSE IF bucket[k].ID # featureID
         THEN RangeMatching(h, bucket, k + 1, featureID, respondErr)
    ELSE LET r == RequestFeatureIDRespond(h.i[1], bucket[k], k, respondErr)
             h1 == [h EXCEPT !.replies = @ \o r.sent,
                             !.flows = Append(@, r),
                             !.k = k]
         IN  IF r.state = "blocked"
             THEN [h1 EXCEPT !.pc = "blocked", !.token = NewToken, !.once = 1]
             ELSE AfterFlow(h1, bucket, k, featureID, r.ic, r.fID, respondErr)

AfterFlow(h, bucket, k, featureID, ic, fID, respondErr) ==
    LET h1 == WriteValues([h EXCEPT !.i = ic], bucket[k].Data, k, fID, 1)
    IN  IF ic = <<>>
        THEN [h1 EXCEPT !.pc = "panicked"]
        ELSE RangeMatching([h1 EXCEPT !.replies = Append(@, Reply(ic[1], "OK", "", "", Nil))],
                           bucket, k + 1, featureID, respondErr)

\* DecodeFeature taking the first field, not the last, as the identifier
DecodeFeature_FirstFieldAsID(optionName, value) ==
    IF optionName = "feature"
    THEN LET ids == Split(value, ":")
         IN  IF Len(ids) # 0
             THEN [type |-> ids[1], id |-> ids[1]]
             ELSE [type |-> <<>>, id |-> value]
    ELSE [type |-> <<>>, id |-> <<>>]

\* the decoding of the "feature" option: (FeatureType, identifier)
DecodeFeature(optionName, value) ==
    IF optionName = "feature"
    THEN LET ids == Split(value, ":")
         IN  IF Len(ids) # 0
             THEN [type |-> ids[1], id |-> ids[Len(ids)]]
             ELSE [type |-> <<>>, id |-> value]
    ELSE [type |-> <<>>, id |-> <<>>]

\* the func(*discordgo.Session, *discordgo.InteractionCreate) returned by
\* FeatureManager.ApplicationCommandHandler(), called with i, up to its
\* return, its panic or the receive it blocks in
HandleEnable(h, i, respondErr) ==
    IF i.Type # InteractionApplicationCommand THEN h
    ELSE IF i.Name # CommandName THEN h
    ELSE IF i.Sub # "enable" THEN h
    ELSE LET dec == DecodeFeature(i.Option, i.Value)
         IN  IF dec.id = <<>>
             THEN [h EXCEPT !.replies =
                      Append(@, Reply(i, "error_invalid_command_argument", "", "", Nil))]
             ELSE RangeMatching(h, Bucket(featureMap, dec.type), 1, dec.id, respondErr)

\* the state of the handler's goroutine, from and to the variables
HandlerState ==
    [i |-> hi, replies |-> replies, writes |-> writes, flows |-> flows,
     enabled |-> enabled, pc |-> hpc, k |-> hk, token |-> token, once |-> once]

SetHandlerState(h) ==
    /\ hi' = h.i
    /\ replies' = h.replies
    /\ writes' = h.writes
    /\ flows' = h.flows
    /\ enabled' = h.enabled
    /\ hpc' = h.pc
    /\ hk' = h.k
    /\ token' = h.token
    /\ once' = h.once
    /\ crashed' = (crashed \/ h.pc = "panicked")

\* an interaction is delivered and the session calls the enable handler
ApplicationCommandHandler(i, respondErr) ==
    /\ fop = "none"
    /\ hpc = "idle"
    /\ ~crashed
    /\ inter' = i
    /\ SetHandlerState(HandleEnable([HandlerState EXCEPT !.i = <<i>>, !.pc = "returned"],
                                    i, respondErr))
    /\ UNCHANGED delivered
    /\ UNCHANGED <<featureMap, fop, farg, fret, fpre, ev, invoked, dpanic>>
    /\ UNCHANGED commandVars
    /\ UNCHANGED raceVars
    /\ UNCHANGED shardVars

\* the one-shot handler of the flow, called with interaction i: "reregister"
\* when it calls s.AddHandlerOnce(handler) and returns, "panic" when it
\* panics (MessageComponentData on an interaction that is no component,
\* close of a nil channel), "complete" when it sets i1 and closes c
OneShotHandler(i, sessionID, c) ==
    IF i.Type = InteractionMessageComponent THEN "reregister"
    ELSE IF i.Type # InteractionMessageComponent THEN "panic"
    ELSE IF i.CustomID # sessionID THEN "reregister"
    ELSE IF c = "nil" THEN "panic"
    ELSE "complete"

\* an interaction is delivered to the session while the flow waits: the
\* session removes the one-shot entry and calls it; a close of c releases
\* the goroutine blocked in <-c, which goes on with (i1, i1's values)
DeliverInteraction(j, respondErr) ==
    /\ hpc = "blocked"
    /\ once > 0
    /\ ~crashed
    /\ j \notin delivered
    /\ delivered' = delivered \cup {j}
    /\ LET r == OneShotHandler(j, token, FlowChannel)
           dec == DecodeFeature(inter.Option, inter.Value)
       IN  IF r = "reregister"
           THEN UNCHANGED <<hi, replies, writes, flows, enabled, hpc, hk, token,
                            once, crashed>>
           ELSE IF r = "panic"
           THEN /\ once' = once - 1
                /\ crashed' = TRUE
                /\ UNCHANGED <<hi, replies, writes, flows, enabled, hpc, hk, token>>
           ELSE SetHandlerState(
                    AfterFlow([HandlerState EXCEPT
                                   !.once = once - 1,
                                   !.flows[Len(flows)] =
                                       Flow("returned", hk, <<j>>, j.Values,
                                            flows[Len(flows)].sent, TRUE)],
                              Bucket(featureMap, dec.type), hk, dec.id,
                              <<j>>, j.Values, respondErr))
    /\ UNCHANGED <<inter, featureMap, fop, farg, fret, fpre, ev, invoked, dpanic>>
    /\ UNCHANGED commandVars
    /\ UNCHANGED raceVars
    /\ UNCHANGED shardVars

\* the enable handler has returned: what the model kept of the call is dropped
EnableReturn ==
    /\ hpc = "returned"
    /\ ~crashed
    /\ inter' = NoInteraction
    /\ hpc' = "idle"
    /\ hi' = <<>>
    /\ hk' = 0
    /\ replies' = <<>>
    /\ writes' = <<>>
    /\ flows' = <<>>
    /\ token' = ""
    /\ once' = 0
    /\ delivered' = {}
    /\ UNCHANGED crashed
    /\ UNCHANGED featureVars
    /\ UNCHANGED shardVars

\* no enable invocation yet
InitEnable ==
    /\ inter = NoInteraction
    /\ hpc = "idle"
    /\ hi = <<>>
    /\ hk = 0
    /\ replies = <<>>
    /\ writes = <<>>
    /\ flows = <<>>
    /\ token = ""
    /\ once = 0
    /\ delivered = {}
    /\ crashed = FALSE

\* the Features the registering code adds before enable invocations: under
\* MESSAGE_CREATE, with or without an ID, of every IDType
EnableFeatures ==
    { [Name |-> "welcome", ID |-> id, IDType |-> it, Type |-> FeatureMessageCreate,
       Data |-> "d1", Handler |-> FnMessageCreate] :
        id \in {<<>>, <<"a">>},
        it \in {FeatureChannelID, FeatureUserID, FeatureGuildID, FeatureRoleID} }

----------------------------------------------------------------------------
(* module_feature.go: the command descriptor of FeatureManager.ApplicationCommand() *)

\* the orders in which a range statement may visit the keys of a map: Go
\* leaves the iteration order of a map unspecified and the runtime varies it
\* from one range statement to the next
RangeOrders(keys) ==
    { o \in [1..Cardinality(keys) -> keys] :
        \A a \in 1..Cardinality(keys), b \in 1..Cardinality(keys) :
            a # b => o[a] # o[b] }

\* the choice of Feature f: Name: f.Name, Value: string(f.Type) + f.ID
Choice(f) == [Name |-> f.Name, Value |-> f.Type \o f.ID]

\* for _, f := range v { choices = append(choices, ...) }
BucketChoices(v) == [k \in 1..Len(v) |-> Choice(v[k])]

\* for _, v := range fm.featureMap { ... }, visiting the keys in order, from
\* position n on
RECURSIVE MapChoices(_, _, _)
MapChoices(fm, order, n) ==
    IF n > Len(order) THEN <<>>
    ELSE BucketChoices(fm[order[n]]) \o MapChoices(fm, order, n + 1)

\* FeatureManager.ApplicationCommand(): the choices of the "feature" option
\* of the descriptor it returns; order is the order the map range takes
ApplicationCommand(order) ==
    /\ fop = "none"
    /\ fop' = "ApplicationCommand"
    /\ fpre' = featureMap
    /\ cmdPrev' = cmd
    /\ cmd' = <<MapChoices(featureMap, order, 1)>>
    /\ UNCHANGED <<featureMap, enabled, farg, fret, ev, invoked, dpanic>>
    /\ UNCHANGED raceVars
    /\ UNCHANGED shardVars
    /\ UNCHANGED enableVars

\* the Features the registering code adds before it builds the descriptor:
\* under two FeatureTypes, with and without an ID
DescriptorFeatures ==
    { [Name |-> n, ID |-> id, IDType |-> FeatureChannelID, Type |-> t,
       Data |-> "d1", Handler |-> FnMessageCreate] :
        n \in {"welcome", "log"},
        id \in {<<>>, <<"a">>},
        t \in {FeatureMessageCreate, FeatureTypingStart} }

\* the enable invocations a user can make from a descriptor: the "feature"
\* value is the Value of one of its choices
ChoiceInvocations(choices) ==
    { Interaction("i0", InteractionApplicationCommand, CommandName,
                  choices[n].Value, g, "", <<>>) :
        n \in 1..Len(choices), g \in EntityIds }

----------------------------------------------------------------------------
(* module_feature.go: AddFeature, Handler() and ApplicationCommand() as
   concurrent goroutines *)

\* goroutine p is between fm.Lock() and the deferred fm.Unlock()
InCriticalSection(p) == apc[p] \in {"locked", "write", "writing", "unlock"}

\* goroutine p is inside the assignment to the map
MapWriting(p) == apc[p] = "writing"

\* AddFeatureLock without the mutex: the call goes on whoever holds the lock
AddFeatureLock_NoMutex(p, f) ==
    /\ ~fatal
    /\ apc[p] = "idle"
    /\ apc' = [apc EXCEPT ![p] = "locked"]
    /\ af' = [af EXCEPT ![p] = f]
    /\ UNCHANGED <<lock, aold, added, rpc, rseen, fatal>>
    /\ UNCHANGED <<featureMap, enabled, fop, farg, fret, fpre, ev, invoked, dpanic>>
    /\ UNCHANGED commandVars
    /\ UNCHANGED shardVars
    /\ UNCHANGED enableVars

\* goroutine p calls AddFeature(f): fm.Lock() returns once the mutex is free
AddFeatureLock(p, f) ==
    /\ ~fatal
    /\ apc[p] = "idle"
    /\ lock = 0
    /\ lock' = p
    /\ apc' = [apc EXCEPT ![p] = "locked"]
    /\ af' = [af EXCEPT ![p] = f]
    /\ UNCHANGED <<aold, added, rpc, rseen, fatal>>
    /\ UNCHANGED <<featureMap, enabled, fop, farg, fret, fpre, ev, invoked, dpanic>>
    /\ UNCHANGED commandVars
    /\ UNCHANGED shardVars
    /\ UNCHANGED enableVars

\* if f.Data == nil { return ErrNoFeatureData }; otherwise the right-hand side
\* append(fm.featureMap[f.Type], f) reads the bucket
AddFeatureRead(p) ==
    /\ ~fatal
    /\ apc[p] = "locked"
    /\ IF af[p].Data = Nil
       THEN /\ apc' = [apc EXCEPT ![p] = "unlock"]
            /\ aold' = aold
       ELSE /\ apc' = [apc EXCEPT ![p] = "write"]
            /\ aold' = [aold EXCEPT ![p] = Bucket(featureMap, af[p].Type)]
    /\ UNCHANGED <<lock, af, added, rpc, rseen, fatal>>
    /\ UNCHANGED <<featureMap, enabled, fop, farg, fret, fpre, ev, invoked, dpanic>>
    /\ UNCHANGED commandVars
    /\ UNCHANGED shardVars
    /\ UNCHANGED enableVars

\* fm.featureMap[f.Type] = ...: the assignment to the map begins
AddFeatureWrite(p) ==
    /\ ~fatal
    /\ apc[p] = "write"
    /\ apc' = [apc EXCEPT ![p] = "writing"]
    /\ UNCHANGED <<lock, af, aold, added, rpc, rseen, fatal>>
    /\ UNCHANGED <<featureMap, enabled, fop, farg, fret, fpre, ev, invoked, dpanic>>
    /\ UNCHANGED commandVars
    /\ UNCHANGED shardVars
    /\ UNCHANGED enableVars

\* the assignment to the map ends: the bucket is the one read, with f appended
AddFeatureStore(p) ==
    /\ ~fatal
    /\ apc[p] = "writing"
    /\ featureMap' = [t \in DOMAIN featureMap \cup {af[p].Type} |->
                        IF t = af[p].Type THEN Append(aold[p], af[p])
                        ELSE featureMap[t]]
    /\ apc' = [apc EXCEPT ![p] = "unlock"]
    /\ cmd' = <<>>
    /\ cmdPrev' = <<>>
    /\ UNCHANGED <<lock, af, aold, added, rpc, rseen, fatal>>
    /\ UNCHANGED <<enabled, fop, farg, fret, fpre, ev, invoked, dpanic>>
    /\ UNCHANGED shardVars
    /\ UNCHANGED enableVars

\* the deferred fm.Unlock() runs and AddFeature returns
AddFeatureUnlock(p) ==
    /\ ~fatal
    /\ apc[p] = "unlock"
    /\ lock' = 0
    /\ apc' = [apc EXCEPT ![p] = "done"]
    /\ added' = IF af[p].Data = Nil THEN added ELSE Append(added, af[p])
    /\ UNCHANGED <<af, aold, rpc, rseen, fatal>>
    /\ UNCHANGED <<featureMap, enabled, fop, farg, fret, fpre, ev, invoked, dpanic>>
    /\ UNCHANGED commandVars
    /\ UNCHANGED shardVars
    /\ UNCHANGED enableVars

\* what a read of the map gives while goroutine p is inside the assignment to
\* the map: the runtime may see the map as it was or as it will be
RacingMaps ==
    {featureMap} \cup
    { [t \in DOMAIN featureMap \cup {af[p].Type} |->
          IF t = af[p].Type THEN Append(aold[p], af[p]) ELSE featureMap[t]] :
        p \in {q \in Adders : MapWriting(q)} }

\* the dispatcher returned by Handler() reads fm.featureMap[t] for an event
\* of FeatureType t, without the lock; while another goroutine is inside the
\* assignment to the map the runtime may also stop the process (fatal error:
\* concurrent map read and map write)
DispatchRead(t) ==
    /\ ~fatal
    /\ rpc = "idle"
    /\ \/ \E fm \in RacingMaps :
            /\ rpc' = "Dispatch"
            /\ rseen' = Bucket(fm, t)
            /\ fatal' = FALSE
       \/ /\ \E p \in Adders : MapWriting(p)
          /\ fatal' = TRUE
          /\ UNCHANGED <<rpc, rseen>>
    /\ UNCHANGED <<lock, apc, af, aold, added>>
    /\ UNCHANGED <<featureMap, enabled, fop, farg, fret, fpre, ev, invoked, dpanic>>
    /\ UNCHANGED commandVars
    /\ UNCHANGED shardVars
    /\ UNCHANGED enableVars

\* ApplicationCommand() ranges over fm.featureMap without the lock and
\* gathers the choices
CommandRead ==
    /\ ~fatal
    /\ rpc = "idle"
    /\ \/ \E fm \in RacingMaps : \E order \in RangeOrders(DOMAIN fm) :
            /\ rpc' = "ApplicationCommand"
            /\ rseen' = MapChoices(fm, order, 1)
            /\ fatal' = FALSE
       \/ /\ \E p \in Adders : MapWriting(p)
          /\ fatal' = TRUE
          /\ UNCHANGED <<rpc, rseen>>
    /\ UNCHANGED <<lock, apc, af, aold, added>>
    /\ UNCHANGED <<featureMap, enabled, fop, farg, fret, fpre, ev, invoked, dpanic>>
    /\ UNCHANGED commandVars
    /\ UNCHANGED shardVars
    /\ UNCHANGED enableVars

\* the reading goroutine is done with what it read and returns
ReadReturn ==
    /\ ~fatal
    /\ rpc # "idle"
    /\ rpc' = "idle"
    /\ rseen' = <<>>
    /\ UNCHANGED <<lock, apc, af, aold, added, fatal>>
    /\ UNCHANGED <<featureMap, enabled, fop, farg, fret, fpre, ev, invoked, dpanic>>
    /\ UNCHANGED commandVars
    /\ UNCHANGED shardVars
    /\ UNCHANGED enableVars

\* the Features the goroutines add: two under MESSAGE_CREATE, one under
\* TYPING_START, one without Data
RaceFeatures ==
    { [Name |-> "welcome", ID |-> <<"a">>, IDType |-> FeatureChannelID,
       Type |-> FeatureMessageCreate, Data |-> "d1", Handler |-> FnMessageCreate],
      [Name |-> "log", ID |-> <<"a">>, IDType |-> FeatureChannelID,
       Type |-> FeatureMessageCreate, Data |-> "d1", Handler |-> FnMessageCreate],
      [Name |-> "typing", ID |-> <<"a">>, IDType |-> FeatureChannelID,
       Type |-> FeatureTypingStart, Data |-> "d1", Handler |-> FnTypingStart],
      [Name |-> "broken", ID |-> <<"a">>, IDType |-> FeatureChannelID,
       Type |-> FeatureMessageCreate, Data |-> Nil, Handler |-> FnMessageCreate] }

----------------------------------------------------------------------------
(* Specifications *)

\* New() for any shard count the platform reports
InitShards ==
    /\ \E count \in 0..MaxShards : InitFleet(count)
    /\ InitFeatures
    /\ InitEnable

\* the fleet: New(), then Open, Close and AddHandler
SpecShards == InitShards /\ [][NextShards]_vars

\* the fleet and the command operations of interaction.go
SpecCommands == InitShards /\ [][NextCommands]_vars

NextFeatures ==
    \/ \E f \in DispatchFeatures : AddFeature(f)
    \/ \E id \in EntityIds : DataWrite("d1", id)
    \/ \E a \in InboundEvents : Dispatch(a)
    \/ FeatureReturn

\* New() on a platform that reports one shard
InitOneShard ==
    /\ InitFleet(1)
    /\ InitFeatures
    /\ InitEnable

\* the registry and its dispatcher, on a fleet of one unit
SpecFeatures == InitOneShard /\ [][NextFeatures]_vars

NextEnable ==
    \/ \E f \in EnableFeatures : hpc = "idle" /\ ~crashed /\ AddFeature(f)
    \/ hpc = "idle" /\ ~crashed /\ FeatureReturn
    \/ \E i \in Invocations, respondErr \in {Nil, "boom"} :
            ApplicationCommandHandler(i, respondErr)
    \/ \E j \in FollowUps, respondErr \in {Nil, "boom"} :
            DeliverInteraction(j, respondErr)
    \/ EnableReturn

\* goroutines calling AddFeature while another dispatches an event or builds
\* the descriptor
NextRace ==
    \/ \E p \in Adders, f \in RaceFeatures : AddFeatureLock(p, f)
    \/ \E p \in Adders : AddFeatureRead(p)
    \/ \E p \in Adders : AddFeatureWrite(p)
    \/ \E p \in Adders : AddFeatureStore(p)
    \/ \E p \in Adders : AddFeatureUnlock(p)
    \/ \E t \in {FeatureMessageCreate, FeatureTypingStart} : DispatchRead(t)
    \/ CommandRead
    \/ ReadReturn

SpecRace == InitOneShard /\ [][NextRace]_vars

\* the registry, its descriptor, and the enable invocations made from the
\* descriptor's choices
NextDescriptor ==
    \/ \E f \in DescriptorFeatures : hpc = "idle" /\ AddFeature(f)
    \/ \E order \in RangeOrders(DOMAIN featureMap) :
            hpc = "idle" /\ ApplicationCommand(order)
    \/ hpc = "idle" /\ FeatureReturn
    \/ \E i \in ChoiceInvocations(IF cmd = <<>> THEN <<>> ELSE cmd[1]) :
            ApplicationCommandHandler(i, Nil)
    \/ EnableReturn

SpecDescriptor == InitOneShard /\ [][NextDescriptor]_vars

\* the registry, the enable handler and the follow-up interactions
SpecEnable == InitOneShard /\ [][NextEnable]_vars

\* a message component sent while a flow waits reaches the session's handlers
DeliverComponent ==
    \E j \in FollowUps, respondErr \in {Nil, "boom"} :
        /\ j.Type = InteractionMessageComponent
        /\ DeliverInteraction(j, respondErr)

\* the same, where what can run does run: the session hands on every message
\* component sent to it (and with it the release of a goroutine whose channel
\* was closed), and a handler that has returned is done with
FairSpecEnable ==
    /\ InitOneShard
    /\ [][NextEnable]_vars
    /\ WF_vars(DeliverComponent)
    /\ WF_vars(EnableReturn)

----------------------------------------------------------------------------
(* Properties of BotManager.Open and BotManager.Close *)

\* a unit is open when both its Api connection and its gateway session are
UnitOpen(sh) == sh.Api.open /\ sh.Session.open

\* a unit is fully closed when neither is open
UnitClosed(sh) == ~sh.Api.open /\ ~sh.Session.open

\* the operation named op has returned
Returned(op) == mop = op /\ mpc = "idle"

\* the calls of the running operation follow the loop: unit 0's first step,
\* unit 0's second step, unit 1's first step, ...; only the last may have failed
CallsAscending(first, second) ==
    /\ \A k \in 1..Len(mcalls) :
        /\ mcalls[k].shard = (k - 1) \div 2
        /\ mcalls[k].op = IF k % 2 = 1 THEN first ELSE second
    /\ \A k \in 1..(Len(mcalls) - 1) : mcalls[k].err = Nil

\* the units the running operation has not reached are as they were at the call
LaterUnitsUntouched ==
    \A j \in 1..Len(Shards) :
        j > (Len(mcalls) + 1) \div 2 => Shards[j] = mpre[j]

\* C1: Open opens the units in ascending shard order, a unit being touched
\* only after every earlier unit opened successfully; on the first failing
\* unit K it returns an error wrapping that failure, attempts no unit after K
\* and closes none of the units 0..K-1 it opened.
C1_OpenAscendingNoRollback ==
    mop = "Open" =>
        /\ CallsAscending("ApiOpen", "SessionOpen")
        /\ LaterUnitsUntouched
        /\ \A j \in 1..Len(Shards) :
            (2 * j <= Len(mcalls) /\ mcalls[2 * j].err = Nil) => UnitOpen(Shards[j])
        /\ (mpc = "idle" /\ mret # NoError) =>
            /\ Len(mcalls) > 0
            /\ mcalls[Len(mcalls)].err # Nil
            /\ mcalls[Len(mcalls)].shard = mi
            /\ mret.cause = mcalls[Len(mcalls)].err
            /\ \A j \in 1..Len(Shards) : j < mi + 1 => UnitOpen(Shards[j])
            /\ \A j \in 1..Len(Shards) : j > mi + 1 => Shards[j] = mpre[j]
        /\ (mpc = "idle" /\ mret = NoError) =>
            /\ Len(mcalls) = 2 * Len(Shards)
            /\ \A j \in 1..Len(Shards) : UnitOpen(Shards[j])

\* C1 witness: Open failed on unit 1 of at least three units, unit 0 is open
C1_Witness ==
    /\ Returned("Open")
    /\ mret # NoError
    /\ mi = 1
    /\ Len(Shards) >= 3
    /\ UnitOpen(Shards[1])

\* the shard index an error names (-1 when it names none)
ErrShard(err) == IF "shard" \in DOMAIN err THEN err["shard"] ELSE -1

\* C2: when Open is called on closed units and unit K is the first to fail, in
\* either open step, exactly the units before K are open, unit K holds no open
\* connection of any kind, and the returned error identifies K's index.
C2_OpenFailureLeavesPrefixOpen ==
    (/\ Returned("Open")
     /\ mret # NoError
     /\ \A j \in 1..Len(mpre) : UnitClosed(mpre[j])) =>
        /\ \A j \in 1..Len(Shards) : j < mi + 1 => UnitOpen(Shards[j])
        /\ \A j \in 1..Len(Shards) : j >= mi + 1 => UnitClosed(Shards[j])
        /\ ErrShard(mret) = mi

\* C3: Close closes the units in ascending shard order and stops at the first
\* error: the error is returned, the units before the failing unit K are fully
\* closed and every unit after K is left as it was (still open if it was open);
\* with no failure every unit is fully closed and nil is returned.
C3_CloseStopsAtFirstError ==
    mop = "Close" =>
        /\ CallsAscending("SessionClose", "ApiClose")
        /\ LaterUnitsUntouched
        /\ (mpc = "idle" /\ mret # NoError) =>
            /\ Len(mcalls) > 0
            /\ mcalls[Len(mcalls)].err # Nil
            /\ mcalls[Len(mcalls)].shard = mi
            /\ mret.cause = mcalls[Len(mcalls)].err
            /\ \A j \in 1..Len(Shards) : j < mi + 1 => UnitClosed(Shards[j])
            /\ \A j \in 1..Len(Shards) :
                j > mi + 1 => /\ Shards[j] = mpre[j]
                              /\ (UnitOpen(mpre[j]) => UnitOpen(Shards[j]))
        /\ (mpc = "idle" /\ mret = NoError) =>
            /\ Len(mcalls) = 2 * Len(Shards)
            /\ \A j \in 1..Len(Shards) : UnitClosed(Shards[j])

\* C3 witness: Close failed on unit 1 of at least three units that were all
\* open; unit 0 is closed and unit 2 is still open
C3_Witness ==
    /\ Returned("Close")
    /\ mret # NoError
    /\ mi = 1
    /\ Len(Shards) >= 3
    /\ \A j \in 1..Len(mpre) : UnitOpen(mpre[j])
    /\ UnitClosed(Shards[1])
    /\ UnitOpen(Shards[3])

----------------------------------------------------------------------------
(* Properties of the command operations and of construction *)

\* the operations of interaction.go
CommandOperations ==
    {"ApplicationCommandCreate", "ApplicationCommandDelete", "ApplicationCommands",
     "LocalApplicationCommandDelete"}

\* a BotManager operation has ended (returned to its caller)
OperationEnded ==
    \/ mop \in {"Open", "Close"} /\ mpc = "idle"
    \/ mop \in CommandOperations /\ mpc = "done"

\* C13: every BotManager operation attempted while the manager holds no unit
\* (Open, Close, ApplicationCommandCreate, ApplicationCommandDelete,
\* ApplicationCommands, LocalApplicationCommandDelete) reports a "no session"
\* error and makes no call to the gateway/REST collaborator.
C13_NoUnitReportsNoSession ==
    (OperationEnded /\ Len(mpre) = 0) =>
        /\ mret = ErrNoSession
        /\ mcalls = <<>>

\* the commands the create calls before call n returned, in call order
RECURSIVE Gathered(_, _)
Gathered(calls, n) ==
    IF n <= 1 THEN <<>>
    ELSE Gathered(calls, n - 1) \o calls[n - 1].got

\* C14: ApplicationCommandCreate(tree) issues one create call per command in
\* list order; when the create call for command K fails it makes no further
\* create call and returns, together with the error, the partial result: the
\* commands that were successfully created before K.
C14_CreateReturnsPartialResult ==
    (mop = "ApplicationCommandCreate" /\ mpc = "done" /\ Len(mpre) > 0) =>
        /\ Len(mcalls) <= Len(marg)
        /\ \A k \in 1..Len(mcalls) :
            /\ mcalls[k].op = "ApplicationCommandCreate"
            /\ mcalls[k].arg = marg[k]
        /\ \A k \in 1..(Len(mcalls) - 1) : mcalls[k].err = Nil
        /\ mret = NoError =>
            /\ Len(mcalls) = Len(marg)
            /\ mout = Gathered(mcalls, Len(mcalls) + 1)
        /\ mret # NoError =>
            /\ Len(mcalls) > 0
            /\ mcalls[Len(mcalls)].err # Nil
            /\ mret.cause = mcalls[Len(mcalls)].err
            /\ mout = Gathered(mcalls, Len(mcalls))

\* C15: after validateShards(token, count), and in every state reached by
\* Open, Close and AddHandler, len(Shards) == ShardCount, Shards[i].ShardID == i
\* for every index i, and no two units share an Api: each unit's Api and its
\* sequence counter are distinct from every other unit's and from the manager's.
C15_FleetSizedAndApisPrivate ==
    /\ Len(Shards) = ShardCount
    /\ \A j \in 1..Len(Shards) :
        /\ Shards[j].ShardID = j - 1
        /\ Shards[j].Api.addr # Api.addr
        /\ Shards[j].Api.sequence # Api.sequence
        /\ \A k \in 1..Len(Shards) :
            k # j => /\ Shards[j].Api.addr # Shards[k].Api.addr
                     /\ Shards[j].Api.sequence # Shards[k].Api.sequence

----------------------------------------------------------------------------
(* Properties of the Feature registry and its dispatcher *)

\* C4: AddFeature(f) with nil Data returns ErrNoFeatureData and changes no
\* bucket; with Data it succeeds, also for a Feature registered before,
\* appends f as the last element of the bucket of f.Type, and leaves the
\* earlier elements of that bucket and every other bucket as they were.
C4_AddFeatureAppends ==
    fop = "AddFeature" =>
        IF farg.Data = Nil
        THEN /\ fret = ErrNoFeatureData
             /\ featureMap = fpre
        ELSE /\ fret = NoError
             /\ Len(Bucket(featureMap, farg.Type)) = Len(Bucket(fpre, farg.Type)) + 1
             /\ Bucket(featureMap, farg.Type)[Len(Bucket(featureMap, farg.Type))] = farg
             /\ \A k \in 1..Len(Bucket(fpre, farg.Type)) :
                    Bucket(featureMap, farg.Type)[k] = Bucket(fpre, farg.Type)[k]
             /\ \A t \in (DOMAIN featureMap \cup DOMAIN fpre) \ {farg.Type} :
                    Bucket(featureMap, t) = Bucket(fpre, t)

\* C4 witness: a Feature was added that was registered before, with the same
\* Name, ID and Type
C4_Witness ==
    /\ fop = "AddFeature"
    /\ farg.Data # Nil
    /\ \E k \in 1..Len(Bucket(fpre, farg.Type)) :
        /\ Bucket(fpre, farg.Type)[k].Name = farg.Name
        /\ Bucket(fpre, farg.Type)[k].ID = farg.ID
        /\ Bucket(fpre, farg.Type)[k].Type = farg.Type

\* the last dispatch called the handler of the Feature at index k of bucket t
HandlerCalled(t, k) ==
    /\ fop = "Dispatch"
    /\ t = EventFeatureType(ev)
    /\ \E n \in 1..Len(invoked) : invoked[n] = k

\* Feature f is registered under the FeatureType of event e and its handler
\* has the function shape of that event
ShapeMatches(f, e) ==
    \/ e.type = "MessageCreate" /\ f.Type = FeatureMessageCreate
                                /\ f.Handler = FnMessageCreate
    \/ e.type = "TypingStart" /\ f.Type = FeatureTypingStart
                              /\ f.Handler = FnTypingStart

\* the user who caused event e: the message's author, the typing user
ActingUser(e) == IF e.type = "MessageCreate" THEN e.Author ELSE e.UserID

\* the identifiers the resolution rule of f's IDType takes from event e:
\* the channel, the guild, or the acting user (none for a message that
\* carries no member)
ResolvedIds(f, e) ==
    IF f.IDType = FeatureChannelID THEN {e.ChannelID}
    ELSE IF f.IDType = FeatureGuildID THEN {e.GuildID}
    ELSE IF f.IDType = FeatureUserID
         THEN IF e.type = "MessageCreate" /\ e.Member = <<>>
              THEN {} ELSE {ActingUser(e)}
    ELSE {}

\* C5: for every Feature registered under MESSAGE_CREATE or TYPING_START with
\* IDType channel, guild or user, the dispatcher calls the Feature's handler
\* if and only if the event has the Feature's shape, the handler has the
\* matching function shape and IsEnabled is true for the identifier resolved
\* from the event (channel ID, guild ID, author/user ID; none when a message
\* carries no member); a Feature of another FeatureType or with a handler of
\* the wrong shape is never called.
C5_DispatchIffEnabled ==
    fop = "Dispatch" =>
        \A t \in DOMAIN featureMap : \A k \in 1..Len(featureMap[t]) :
            LET f == featureMap[t][k]
            IN  f.IDType \in {FeatureChannelID, FeatureGuildID, FeatureUserID} =>
                    (HandlerCalled(t, k) <=>
                        /\ ShapeMatches(f, ev)
                        /\ \E id \in ResolvedIds(f, ev) : IsEnabled(f.Data, id))

\* C6: for a Feature with IDType role, the dispatcher looks up the member who
\* caused the event in the event's guild and calls the Feature's handler if
\* and only if IsEnabled is true for at least one role of that member
\* (stated for dispatches that did not panic).
C6_RoleOfActingMember ==
    (fop = "Dispatch" /\ ~dpanic) =>
        \A t \in DOMAIN featureMap : \A k \in 1..Len(featureMap[t]) :
            LET f == featureMap[t][k]
            IN  (f.IDType = FeatureRoleID /\ ShapeMatches(f, ev)) =>
                    (HandlerCalled(t, k) <=>
                        LET m == GuildMember(ev, ev.GuildID, ActingUser(ev))
                        IN  /\ m.err = Nil
                            /\ \E n \in 1..Len(m.Roles) : IsEnabled(f.Data, m.Roles[n]))

----------------------------------------------------------------------------
(* Properties of the enable command and the Interactive Enable Flow *)

\* a flow of a non-guild Feature sent its prompt and registered its one-shot
\* handler
FlowWaits == \E n \in 1..Len(flows) : flows[n].registered

\* that flow, the first to wait
WaitingFlow == flows[CHOOSE n \in 1..Len(flows) : flows[n].registered]

\* a delivered interaction that is a message component carrying the token
TokenDelivered ==
    \E j \in delivered :
        j.Type = InteractionMessageComponent /\ j.CustomID = token

\* C7: in a flow of a non-guild Feature, after any interactions delivered to
\* the session, the flow has completed if and only if one of them was a
\* message component whose identifier is the flow's token; any other
\* delivered interaction leaves the flow waiting with exactly one one-shot
\* entry registered.
C7_CompletesOnlyOnToken ==
    FlowWaits =>
        /\ WaitingFlow.state = "returned" <=> TokenDelivered
        /\ ~TokenDelivered => (hpc = "blocked" /\ once = 1)

\* the waiting flow returned a delivered interaction that carries the token,
\* with exactly that interaction's values
FlowReleased ==
    /\ FlowWaits
    /\ WaitingFlow.state = "returned"
    /\ \E j \in delivered :
            /\ j.CustomID = token
            /\ WaitingFlow.ic = <<j>>
            /\ WaitingFlow.fID = j.Values

\* C8: in a flow of a non-guild Feature whose prompt was sent, a delivered
\* message component carrying the token leads to the release of the blocked
\* goroutine, the call returning that interaction and exactly its values
\* (unless the process has crashed in between).
C8_TokenReleasesWaiter ==
    (FlowWaits /\ TokenDelivered) ~> (FlowReleased \/ crashed)

\* the Feature that flow n of the running enable handler was started for
FlowFeature(n) ==
    Bucket(featureMap, DecodeFeature(inter.Option, inter.Value).type)[flows[n].k]

\* C9: for a Feature with IDType guild, RequestFeatureIDRespond returns at
\* once the interaction it was called with and the one-element list of that
\* interaction's guild ID; it sends no prompt, registers no one-shot handler
\* and does not block.
C9_GuildResolvesAtOnce ==
    /\ \A n \in 1..Len(flows) :
        FlowFeature(n).IDType = FeatureGuildID =>
            /\ flows[n].state = "returned"
            /\ flows[n].ic = <<inter>>
            /\ flows[n].fID = <<inter.GuildID>>
            /\ flows[n].sent = <<>>
            /\ ~flows[n].registered
    /\ (\A n \in 1..Len(flows) : FlowFeature(n).IDType = FeatureGuildID) =>
            /\ hpc # "blocked"
            /\ once = 0
            /\ token = ""
            /\ \A m \in 1..Len(replies) : replies[m].kind # "prompt"

\* C9 witness: the enable handler returned after the flow of a guild Feature,
\* invoked in guild "y"
C9_Witness ==
    /\ hpc = "returned"
    /\ inter.GuildID = "y"
    /\ Len(flows) >= 1
    /\ FlowFeature(1).IDType = FeatureGuildID
    /\ flows[1].fID = <<"y">>

\* a "feature" value whose identifier, the part after the last ":", is empty
EmptyIdentifier(value) == Len(value) = 0 \/ value[Len(value)] = ":"

\* the enable handler was called with an enable invocation of this registry's
\* command
EnableInvoked ==
    /\ inter.Type = InteractionApplicationCommand
    /\ inter.Name = CommandName
    /\ inter.Sub = "enable"
    /\ inter.Option = "feature"

\* C10: an enable invocation whose "feature" value decodes to an empty
\* identifier gets exactly one error reply, starts no Interactive Enable Flow
\* and makes no Write call on the Data of any Feature.
C10_EmptyIdentifierRejected ==
    (EnableInvoked /\ EmptyIdentifier(inter.Value)) =>
        /\ hpc = "returned"
        /\ Len(replies) = 1
        /\ replies[1].kind = "error_invalid_command_argument"
        /\ replies[1].to = inter.ID
        /\ flows = <<>>
        /\ writes = <<>>
        /\ once = 0

\* C10 witness: the value "M:" was rejected although the MESSAGE_CREATE
\* bucket holds a Feature whose ID is empty
C10_Witness ==
    /\ EnableInvoked
    /\ inter.Value = <<"M", ":">>
    /\ Len(replies) = 1
    /\ \E k \in 1..Len(Bucket(featureMap, FeatureMessageCreate)) :
            Bucket(featureMap, FeatureMessageCreate)[k].ID = <<>>

\* what the "feature" value of the running invocation decodes to
Decoded == DecodeFeature(inter.Option, inter.Value)

\* the indices, in ascending order, of the Features of bucket whose ID is id,
\* from index k on
RECURSIVE Matches(_, _, _)
Matches(bucket, id, k) ==
    IF k > Len(bucket) THEN <<>>
    ELSE IF bucket[k].ID = id THEN <<k>> \o Matches(bucket, id, k + 1)
    ELSE Matches(bucket, id, k + 1)

\* the Write calls that the flows up to flow n ask for: for each flow, one
\* Write on its Feature's Data per identifier it resolved, in order
RECURSIVE FlowWrites(_, _, _)
FlowWrites(bucket, fl, n) ==
    IF n = 0 THEN <<>>
    ELSE FlowWrites(bucket, fl, n - 1) \o
         [j \in 1..Len(fl[n].fID) |->
            [store |-> bucket[fl[n].k].Data, id |-> fl[n].fID[j], feature |-> fl[n].k]]

\* the number of "OK" replies among the first n replies
RECURSIVE CountOK(_, _)
CountOK(rs, n) ==
    IF n = 0 THEN 0
    ELSE CountOK(rs, n - 1) + (IF rs[n].kind = "OK" THEN 1 ELSE 0)

\* the enable handler's goroutine has ended: it returned or it panicked
HandlerEnded == hpc \in {"returned", "panicked"}

\* C11: for an enable invocation whose "feature" value decodes to FeatureType T
\* and a non-empty identifier D, the handler has, when it ends, run the
\* Interactive Enable Flow once for every registered Feature with Type T and
\* ID D, in registration order, called Write on that Feature's Data for every
\* identifier the flow resolved, and sent one "OK" reply per flow; no Write
\* went to a Feature whose Type or ID differs.
C11_EnableRunsEveryMatch ==
    (EnableInvoked /\ Decoded.id # <<>> /\ HandlerEnded) =>
        LET bucket == Bucket(featureMap, Decoded.type)
            m == Matches(bucket, Decoded.id, 1)
        IN  /\ Len(flows) = Len(m)
            /\ \A n \in 1..Len(flows) :
                /\ n <= Len(m)
                /\ flows[n].k = m[n]
                /\ flows[n].state = "returned"
            /\ writes = FlowWrites(bucket, flows, Len(flows))
            /\ \A w \in 1..Len(writes) :
                /\ bucket[writes[w].feature].Type = Decoded.type
                /\ bucket[writes[w].feature].ID = Decoded.id
            /\ CountOK(replies, Len(replies)) = Len(m)


\* C12: two calls of ApplicationCommand() with no AddFeature between them
\* return descriptors whose "feature" choice lists are identical in content
\* and order, for every registry state, also with Features under two or more
\* FeatureTypes.
C12_DescriptorIdempotent ==
    (fop = "ApplicationCommand" /\ cmdPrev # <<>>) => cmd = cmdPrev

\* C16: for every registered Feature f with a non-empty ID that holds no ":",
\* the choice value ApplicationCommand() emits for f, passed back as the
\* "feature" option of an enable invocation, is decoded by the handler to
\* exactly (f.Type, f.ID), so that f is among the Features the handler selects.
C16_CompositeKeyRoundTrip ==
    EnableInvoked =>
        \A t \in DOMAIN featureMap : \A k \in 1..Len(featureMap[t]) :
            LET f == featureMap[t][k]
            IN  (/\ f.ID # <<>>
                 /\ \A n \in 1..Len(f.ID) : f.ID[n] # ":"
                 /\ cmd # <<>>
                 /\ \E n \in 1..Len(cmd[1]) : cmd[1][n] = Choice(f)
                 /\ inter.Value = Choice(f).Value) =>
                    /\ Decoded = [type |-> f.Type, id |-> f.ID]
                    /\ k \in {Matches(Bucket(featureMap, Decoded.type), Decoded.id, 1)[n] :
                                n \in 1..Len(Matches(Bucket(featureMap, Decoded.type),
                                                     Decoded.id, 1))}

\* the prompt of a flow of the running handler could not be sent
PromptFailed ==
    \E n \in 1..Len(flows) :
        \E m \in 1..Len(flows[n].sent) :
            flows[n].sent[m].kind = "prompt" /\ flows[n].sent[m].err # Nil

\* C17: when sending the selection prompt fails inside RequestFeatureIDRespond,
\* the error stays within the handling of that event: the flow registers no
\* one-shot handler and does not block, no Write is made for that Feature,
\* and the enable handler returns normally, without a panic.
C17_PromptFailureContained ==
    PromptFailed =>
        /\ \A n \in 1..Len(flows) :
            (\E m \in 1..Len(flows[n].sent) : flows[n].sent[m].err # Nil) =>
                /\ ~flows[n].registered
                /\ flows[n].state = "returned"
                /\ \A w \in 1..Len(writes) : writes[w].feature # flows[n].k
        /\ hpc # "panicked"
        /\ ~crashed

\* C18: every enable invocation of this registry's command that reaches the
\* handler gets at least one reply to the invoking interaction, whatever the
\* "feature" value is, also when the decoded FeatureType and identifier are
\* non-empty and match no registered Feature.
C18_EveryInvocationAnswered ==
    (EnableInvoked /\ hpc = "returned") =>
        \E m \in 1..Len(replies) : replies[m].to = inter.ID

\* C19: within one inbound event the dispatcher considers the Features of
\* the matching bucket in registration order and calls each enabled Feature's
\* handler exactly once; a Feature that is skipped does not keep any later
\* Feature of the bucket from being considered and called (stated for the
\* Features enabled by channel or guild identifier).
C19_DispatchInRegistrationOrder ==
    (fop = "Dispatch" /\ ev.type \in {"MessageCreate", "TypingStart"}) =>
        LET bucket == Bucket(featureMap, EventFeatureType(ev))
        IN  /\ \A n \in 1..Len(invoked) : invoked[n] \in 1..Len(bucket)
            /\ \A n \in 1..(Len(invoked) - 1) : invoked[n] < invoked[n + 1]
            /\ \A k \in 1..Len(bucket) :
                (/\ bucket[k].IDType \in {FeatureChannelID, FeatureGuildID}
                 /\ ShapeMatches(bucket[k], ev)
                 /\ \E id \in ResolvedIds(bucket[k], ev) : IsEnabled(bucket[k].Data, id))
                    => \E n \in 1..Len(invoked) : invoked[n] = k

\* how often x occurs among the first n elements of sequence q
RECURSIVE CountIn(_, _, _)
CountIn(q, x, n) ==
    IF n = 0 THEN 0
    ELSE CountIn(q, x, n - 1) + (IF q[n] = x THEN 1 ELSE 0)

\* no AddFeature call is under way
AddersQuiet == \A p \in Adders : apc[p] \in {"idle", "done"}

\* C20: the registry lock serializes mutation: at most one AddFeature call is
\* inside its critical section, and under any interleaving of concurrent
\* AddFeature calls with non-nil Data every added Feature ends up in its
\* bucket exactly once per call (no lost update); readers take no lock (the
\* witness is a dispatch reading while an AddFeature call mutates the map).
C20_LockSerializesAddFeature ==
    /\ \A p \in Adders, q \in Adders :
        (InCriticalSection(p) /\ InCriticalSection(q)) => p = q
    /\ \A p \in Adders : InCriticalSection(p) => lock = p
    /\ (AddersQuiet /\ ~fatal) =>
        /\ \A n \in 1..Len(added) :
            LET b == Bucket(featureMap, added[n].Type)
            IN  CountIn(b, added[n], Len(b)) = CountIn(added, added[n], Len(added))
        /\ \A t \in DOMAIN featureMap : \A k \in 1..Len(featureMap[t]) :
            CountIn(added, featureMap[t][k], Len(added)) > 0

\* C20 witness: a dispatch has read a bucket without the lock and is going
\* through it while an AddFeature call, holding the lock, is inside the
\* assignment to the map, after another AddFeature call added to the same
\* bucket
C20_Witness ==
    /\ rpc = "Dispatch"
    /\ ~fatal
    /\ \E p \in Adders, q \in Adders :
        /\ MapWriting(p)
        /\ lock = p
        /\ apc[q] = "done"
        /\ af[q].Data # Nil
        /\ af[q].Type = af[p].Type
        /\ rseen = Bucket(featureMap, af[p].Type)
        /\ Len(rseen) > 0

====
